---- MODULE Spec2Model ----
(***************************************************************************)
(* Model of the Telegram media downloader (main.py): the scan collector,   *)
(* the naming resolver, the per-chat ledger file and the download pass     *)
(* download_messages, run repeatedly over one chat folder.                 *)
(***************************************************************************)
EXTENDS Integers, Sequences, FiniteSets, TLC

\* ------------------------------------------------------------------ bounds
NumMsgs == 4        \* messages in the chat history
MaxRuns == 2        \* runs of main() over the chat folder
MaxWait == 2        \* largest wait (seconds) a FloodWaitError carries

\* ------------------------------------------------------------ Python values
\* An optional value is <<>> (None) or <<v>>.
None == <<>>
Some(v) == <<v>>

\* bool(x) of an optional integer / optional string: None, 0 and "" are false
TruthyInt(x) == x # None /\ x[1] # 0
TruthyStr(x) == x # None /\ x[1] # ""

\* what can be found at a path of the ledger or of its temporary file
NoFile == [kind |-> "absent"]
Truncated == [kind |-> "truncated"]    \* opened for writing, dump not complete
Stale == [kind |-> "stale"]            \* left by a terminated save, never read again
Garbage == [kind |-> "garbage"]        \* text json.load cannot parse
NotObject == [kind |-> "json_other"]   \* valid JSON whose top level is no object

Range(s) == {s[i] : i \in 1..Len(s)}

RECURSIVE Reverse(_)
Reverse(s) == IF s = <<>> THEN <<>> ELSE Append(Reverse(Tail(s)), Head(s))

SetMin(S) == CHOOSE x \in S : \A y \in S : x <= y

\* mutant of Sorted: the ids come out largest first
RECURSIVE Descending(_)
Descending(S) == IF S = {} THEN <<>> ELSE Append(Descending(S \ {SetMin(S)}), SetMin(S))

\* sorted(list(msg_ids))
RECURSIVE Sorted(_)
Sorted(S) == IF S = {} THEN <<>> ELSE <<SetMin(S)>> \o Sorted(S \ {SetMin(S)})

\* --------------------------------------------------------------- the chat
\* The messages of the chat, by message id.  Albums share a grouped_id.
PhotoMsg(i, g) ==
    [id |-> i, grouped_id |-> g, media |-> Some("MessageMediaPhoto"), photo |-> TRUE,
     video |-> FALSE, doc_attrs |-> None,
     file |-> Some([name |-> None, ext |-> Some(".jpg")])]

VideoMsg(i, g) ==
    [id |-> i, grouped_id |-> g, media |-> Some("MessageMediaDocument"), photo |-> FALSE,
     video |-> TRUE,
     doc_attrs |-> Some({"DocumentAttributeVideo", "DocumentAttributeFilename"}),
     file |-> Some([name |-> Some("a.mp4"), ext |-> Some(".mp4")])]

TextMsg(i) ==
    [id |-> i, grouped_id |-> None, media |-> None, photo |-> FALSE,
     video |-> FALSE, doc_attrs |-> None, file |-> None]

ChatMessage(i) ==
    CASE i % 5 = 1 -> PhotoMsg(i, Some(7))
      [] i % 5 = 2 -> VideoMsg(i, Some(7))
      [] i % 5 = 3 -> TextMsg(i)
      [] i % 5 = 4 -> PhotoMsg(i, Some(0))
      [] OTHER     -> VideoMsg(i, None)

\* client.iter_messages(chat, limit): the `limit` most recent, newest first
iter_messages(limit) ==
    [k \in 1..(IF limit < NumMsgs THEN limit ELSE NumMsgs) |-> ChatMessage(NumMsgs + 1 - k)]

ChatFolder == "downloads/chat"
ChatMeta == [id |-> -100, name |-> "chat"]

\* ------------------------------------------------------------- classifier
is_photo_message(msg) == msg.photo \/ msg.media = Some("MessageMediaPhoto")

is_video_message(msg) ==
    \/ msg.video
    \/ msg.doc_attrs # None /\ "DocumentAttributeVideo" \in msg.doc_attrs[1]

\* ---------------------------------------------------------- scan collector
\* mutant of Keep: every message with media is kept, whatever its type
KeepAnyMedia(msg, media_type) == msg.media # None

Keep(msg, media_type) ==
    /\ msg.media # None
    /\ CASE media_type = "photos" -> is_photo_message(msg)
         [] media_type = "videos" -> is_video_message(msg)
         [] OTHER -> is_photo_message(msg) \/ is_video_message(msg)

\* collect_media_messages over a given history (most recent first)
collect_over(history, media_type, limit, order) ==
    LET delivered == SubSeq(history, 1, IF limit < Len(history) THEN limit ELSE Len(history))
        collected == SelectSeq(delivered, LAMBDA m : Keep(m, media_type))
    IN  IF order = "oldest" THEN Reverse(collected) ELSE collected

\* mutant of collect_media_messages: `messages.reverse()` is left out
collect_media_messages_unreversed(media_type, limit, order) ==
    SelectSeq(iter_messages(limit), LAMBDA m : Keep(m, media_type))

\* collect_media_messages over the chat: iter_messages(chat, limit=limit)
\* delivers the history
collect_media_messages(media_type, limit, order) ==
    collect_over(iter_messages(limit), media_type, limit, order)

\* --------------------------------------------------------- naming resolver
\* mutant of build_unique_filename: the name is the base alone, without
\* the msg_{id}_ prefix
build_unique_filename_bare(msg, default_ext) ==
    IF msg.file # None /\ TruthyStr(msg.file[1].name)
    THEN msg.file[1].name[1]
    ELSE "file" \o (IF msg.file # None /\ TruthyStr(msg.file[1].ext)
                    THEN msg.file[1].ext[1] ELSE default_ext)

build_unique_filename(msg, default_ext) ==
    LET base == IF msg.file # None /\ TruthyStr(msg.file[1].name)
                THEN msg.file[1].name[1]
                ELSE "file" \o (IF msg.file # None /\ TruthyStr(msg.file[1].ext)
                                THEN msg.file[1].ext[1] ELSE default_ext)
    IN  "msg_" \o ToString(msg.id) \o "_" \o base

\* chat_folder / f"group_{msg.grouped_id}"
GroupDir(grouped_id) == ChatFolder \o "/group_" \o ToString(grouped_id)

\* `if msg.grouped_id:` chooses the album folder, else the chat root
TargetDir(msg) ==
    IF TruthyInt(msg.grouped_id) THEN GroupDir(msg.grouped_id[1]) ELSE ChatFolder

OutPath(msg) == TargetDir(msg) \o "/" \o build_unique_filename(msg, ".bin")

\* ------------------------------------------------------------- ledger file
\* JSON values as they stand in the file
JInt(n) == [t |-> "int", v |-> n]
JStr(str) == [t |-> "str", s |-> str]
JFloat(halves) == [t |-> "float", twice |-> halves]     \* the number halves / 2
JBool(bit) == [t |-> "bool", b |-> bit]
JNull == [t |-> "null"]
JArray(items) == [t |-> "array", items |-> items]
\* a JSON string, by its characters
JChars(cs) == [t |-> "str", chars |-> [k \in 1..Len(cs) |-> JStr(cs[k])]]

\* int(s) of a string: the decimal it spells (blanks around it allowed), or
\* ValueError (None)
IntOfStr(str) ==
    CASE str = "1" -> Some(1)
      [] str = "2" -> Some(2)
      [] str = " 4 " -> Some(4)
      [] OTHER -> None

\* mutant of PyInt: only JSON integers are taken, anything else raises
PyIntStrict(x) == IF x.t = "int" THEN Some(x.v) ELSE None

\* int(x) of a JSON value: Some(n), or None when it raises
PyInt(x) ==
    CASE x.t = "int" -> Some(x.v)
      [] x.t = "str" -> IntOfStr(x.s)
      [] x.t = "float" -> Some(IF x.twice >= 0 THEN x.twice \div 2
                               ELSE 0 - ((0 - x.twice) \div 2))
      [] x.t = "bool" -> Some(IF x.b THEN 1 ELSE 0)
      [] OTHER -> None

\* what iterating a JSON value yields: Some(items), or None for TypeError
IterItems(j) ==
    CASE j.t = "array" -> Some(j.items)
      [] j.t = "str" -> Some(j.chars)
      [] OTHER -> None

\* the try block of load_downloaded_set: Some(set), or None when it raises
LoadTry(content) ==
    IF content.kind # "json" THEN None
    ELSE IF "downloaded_ids" \notin DOMAIN content THEN Some({})
    ELSE LET ids == IterItems(content.downloaded_ids) IN
         IF ids = None THEN None
         ELSE IF \E k \in 1..Len(ids[1]) : PyInt(ids[1][k]) = None THEN None
         ELSE Some({PyInt(ids[1][k])[1] : k \in 1..Len(ids[1])})

\* load_downloaded_set on what is found at the ledger path
load_downloaded_set(content) ==
    IF content = NoFile THEN {}
    ELSE IF LoadTry(content) = None THEN {} ELSE LoadTry(content)[1]

\* json.dump of a sorted list of ints
DumpIds(sorted_ids) == JArray([k \in 1..Len(sorted_ids) |-> JInt(sorted_ids[k])])

\* mutant of Payload: the largest id is left out of the dump
PayloadDropsLast(msg_ids, chat_meta) ==
    [kind |-> "json", chat_id |-> chat_meta.id, chat_name |-> chat_meta.name,
     downloaded_ids |-> DumpIds(SubSeq(Sorted(msg_ids), 1, Cardinality(msg_ids) - 1))]

\* the payload save_downloaded_set dumps
Payload(msg_ids, chat_meta) ==
    [kind |-> "json", chat_id |-> chat_meta.id, chat_name |-> chat_meta.name,
     downloaded_ids |-> DumpIds(Sorted(msg_ids))]

\* ------------------------------------------------------------------- state
VARIABLES
    files,          \* media files on disk: path -> [run, complete]
    dirs,           \* album folders created under the chat folder
    ledgerFile,     \* content at per_chat_log_path
    tmpFile,        \* content at the ledger's .tmp path
    pc,             \* where main() is: idle, scanned, loop, sleep, save_dump, save_replace, returned
    run,            \* number of runs of main() started
    messages,       \* the list handed to download_messages
    idx,            \* position of the for loop in messages (1-based)
    downloaded_ids, \* the in-memory ledger
    skipped,        \* local counter
    completed,      \* local counter
    advances,       \* progress.advance calls on the task
    total,          \* total of the progress task
    wait,           \* e.seconds of the FloodWaitError being handled
    ret,            \* the pair download_messages returned
    \* history of the current pass, kept for the properties
    ledgerFile0,    \* ledger file content when the pass started
    files0,         \* media files on disk when the pass started
    fetchLog,       \* ids passed to msg.download_media, in call order
    outcome,        \* per position of messages: how the iteration ended
    target,         \* per position of messages: the target_dir resolved
    written,        \* paths download_media wrote to during the pass
    prev,           \* summary of the pass that returned just before this one
    scan,           \* the media type, quantity and order main() asked for
    handled,        \* ids of the messages the loop has taken, in order
    \* a function of the program applied on its own
    fn,             \* which function
    arg,            \* its argument
    result          \* None, or Some(what it returned)

vars == <<files, dirs, ledgerFile, tmpFile, pc, run, messages, idx, downloaded_ids,
          skipped, completed, advances, total, wait, ret, ledgerFile0, files0,
          fetchLog, outcome, target, written, prev, scan, handled, fn, arg, result>>

disk == <<files, dirs, ledgerFile, tmpFile>>
locals == <<messages, idx, downloaded_ids, skipped, completed, advances, total, wait, ret>>
passHistory == <<ledgerFile0, files0, fetchLog, outcome, target, written, prev, scan, handled>>
unit == <<fn, arg, result>>

NoFiles == [p \in {} |-> [complete |-> FALSE]]

MediaTypes == {"photos", "videos", "both"}
Orders == {"newest", "oldest"}
Ended == {"idle", "returned"}

\* no pass is running: download_messages has no locals
NoPass ==
    /\ messages = <<>>
    /\ idx = 1
    /\ downloaded_ids = {}
    /\ skipped = 0
    /\ completed = 0
    /\ advances = 0
    /\ total = 0
    /\ wait = 0
    /\ ret = <<0, 0>>
    /\ ledgerFile0 = NoFile
    /\ files0 = NoFiles
    /\ fetchLog = <<>>
    /\ written = {}
    /\ outcome = <<>>
    /\ target = <<>>
    /\ prev = None
    /\ scan = None
    /\ handled = <<>>

\* the locals of download_messages are gone
ResetPass ==
    /\ messages' = <<>>
    /\ idx' = 1
    /\ downloaded_ids' = {}
    /\ skipped' = 0
    /\ completed' = 0
    /\ advances' = 0
    /\ total' = 0
    /\ wait' = 0
    /\ ret' = <<0, 0>>
    /\ ledgerFile0' = NoFile
    /\ files0' = NoFiles
    /\ fetchLog' = <<>>
    /\ written' = {}
    /\ outcome' = <<>>
    /\ target' = <<>>
    /\ prev' = None
    /\ scan' = None
    /\ handled' = <<>>

Init ==
    /\ files = NoFiles
    /\ dirs = {}
    /\ ledgerFile = NoFile
    /\ tmpFile = NoFile
    /\ pc = "idle"
    /\ run = 0
    /\ NoPass
    /\ fn = "main"
    /\ arg = None
    /\ result = None

\* ------------------------------------------------------- steps of the loop
\* mutant of InLedger: the ledger is never consulted
InLedgerNever(msg, ids) == FALSE

\* `if msg.id in downloaded_ids`
InLedger(msg, ids) == msg.id \in ids

\* mutant of Exists: the destination path is never found
ExistsNever(path, fs) == FALSE

\* out_path.exists()
Exists(path, fs) == path \in DOMAIN fs

\* target_dir.mkdir(parents=True, exist_ok=True) for an album message
MkDir(msg, ds) == IF TruthyInt(msg.grouped_id) THEN ds \cup {TargetDir(msg)} ELSE ds

\* mutant of WriteFile: download_media returns without a file at path
WriteFileNowhere(fs, path, content) == fs

\* the file download_media leaves at path
WriteFile(fs, path, content) ==
    [q \in DOMAIN fs \cup {path} |-> IF q = path THEN content ELSE fs[q]]

InLoop == pc = "loop" /\ idx <= Len(messages)
Msg == messages[idx]

\* the pass started on an empty chat folder and no fetch of it raised
CleanPass ==
    /\ ledgerFile0 = NoFile
    /\ files0 = NoFiles
    /\ \A i \in 1..Len(messages) : outcome[i] \notin {"Failed", "RateLimited"}

\* main(): the scan found nothing, no download pass
MainNothing ==
    /\ pc \in Ended
    /\ run < MaxRuns
    /\ \E media_type \in MediaTypes, limit \in 1..NumMsgs, order \in Orders :
          collect_media_messages(media_type, limit, order) = <<>>
    /\ pc' = "idle"
    /\ run' = run + 1
    /\ ResetPass
    /\ UNCHANGED disk
    /\ UNCHANGED unit

\* main(): the options are asked for and collect_media_messages returns a
\* list that is not empty
Scan ==
    /\ pc \in Ended
    /\ run < MaxRuns
    /\ \E media_type \in MediaTypes, limit \in 1..NumMsgs, order \in Orders :
          LET found == collect_media_messages(media_type, limit, order) IN
          /\ found # <<>>
          /\ messages' = found
          /\ outcome' = [i \in 1..Len(found) |-> "Pending"]
          /\ target' = [i \in 1..Len(found) |-> ""]
          /\ scan' = Some([media_type |-> media_type, limit |-> limit, order |-> order])
    /\ pc' = "scanned"
    /\ run' = run + 1
    /\ prev' = IF pc = "returned" /\ CleanPass
             THEN Some([messages |-> messages, ret |-> ret]) ELSE None
    /\ idx' = 1
    /\ downloaded_ids' = {}
    /\ skipped' = 0
    /\ completed' = 0
    /\ advances' = 0
    /\ total' = 0
    /\ wait' = 0
    /\ ret' = <<0, 0>>
    /\ ledgerFile0' = NoFile
    /\ files0' = NoFiles
    /\ fetchLog' = <<>>
    /\ written' = {}
    /\ handled' = <<>>
    /\ UNCHANGED disk
    /\ UNCHANGED unit

\* download_messages starts on the collected list: ledger loaded, counters
\* zeroed, progress task added
StartPass ==
    /\ pc = "scanned"
    /\ total' = Len(messages)
    /\ outcome' = [i \in 1..Len(messages) |-> "Pending"]
    /\ target' = [i \in 1..Len(messages) |-> ""]
    /\ scan' = None
    /\ pc' = "loop"
    /\ idx' = 1
    /\ downloaded_ids' = load_downloaded_set(ledgerFile)
    /\ skipped' = 0
    /\ completed' = 0
    /\ advances' = 0
    /\ wait' = 0
    /\ ledgerFile0' = ledgerFile
    /\ files0' = files
    /\ fetchLog' = <<>>
    /\ written' = {}
    /\ handled' = <<>>
    /\ ret' = <<0, 0>>
    /\ UNCHANGED <<disk, run, messages, prev>>
    /\ UNCHANGED unit

\* the id is in the ledger: skip
SkipInLedger ==
    /\ InLoop
    /\ InLedger(Msg, downloaded_ids)
    /\ skipped' = skipped + 1
    /\ advances' = advances + 1
    /\ handled' = Append(handled, Msg.id)
    /\ idx' = idx + 1
    /\ outcome' = [outcome EXCEPT ![idx] = "SkippedLedger"]
    /\ UNCHANGED <<disk, pc, run, messages, downloaded_ids, completed, total, wait, ret,
                   ledgerFile0, files0, fetchLog, target, written, prev, scan>>
    /\ UNCHANGED unit

\* a file is already at out_path: add the id to the ledger and skip
SkipExisting ==
    /\ InLoop
    /\ ~InLedger(Msg, downloaded_ids)
    /\ Exists(OutPath(Msg), files)
    /\ dirs' = MkDir(Msg, dirs)
    /\ downloaded_ids' = downloaded_ids \cup {Msg.id}
    /\ skipped' = skipped + 1
    /\ advances' = advances + 1
    /\ handled' = Append(handled, Msg.id)
    /\ idx' = idx + 1
    /\ outcome' = [outcome EXCEPT ![idx] = "SkippedFile"]
    /\ target' = [target EXCEPT ![idx] = TargetDir(Msg)]
    /\ UNCHANGED <<files, ledgerFile, tmpFile, pc, run, messages, completed, total, wait,
                   ret, ledgerFile0, files0, fetchLog, written, prev, scan>>
    /\ UNCHANGED unit

\* mutant of FetchOk: the ledger file is written after every download
FetchOkFlushes ==
    /\ InLoop
    /\ ~InLedger(Msg, downloaded_ids)
    /\ ~Exists(OutPath(Msg), files)
    /\ dirs' = MkDir(Msg, dirs)
    /\ files' = WriteFile(files, OutPath(Msg), [complete |-> TRUE])
    /\ written' = written \cup {OutPath(Msg)}
    /\ downloaded_ids' = downloaded_ids \cup {Msg.id}
    /\ ledgerFile' = Payload(downloaded_ids \cup {Msg.id}, ChatMeta)
    /\ completed' = completed + 1
    /\ advances' = advances + 1
    /\ handled' = Append(handled, Msg.id)
    /\ idx' = idx + 1
    /\ fetchLog' = Append(fetchLog, Msg.id)
    /\ outcome' = [outcome EXCEPT ![idx] = "Downloaded"]
    /\ target' = [target EXCEPT ![idx] = TargetDir(Msg)]
    /\ UNCHANGED <<tmpFile, pc, run, messages, skipped, total, wait, ret,
                   ledgerFile0, files0, prev, scan>>
    /\ UNCHANGED unit

\* mutant of FetchOk: the download is not counted in completed
FetchOkUncounted ==
    /\ InLoop
    /\ ~InLedger(Msg, downloaded_ids)
    /\ ~Exists(OutPath(Msg), files)
    /\ dirs' = MkDir(Msg, dirs)
    /\ files' = WriteFile(files, OutPath(Msg), [complete |-> TRUE])
    /\ written' = written \cup {OutPath(Msg)}
    /\ downloaded_ids' = downloaded_ids \cup {Msg.id}
    /\ advances' = advances + 1
    /\ handled' = Append(handled, Msg.id)
    /\ idx' = idx + 1
    /\ fetchLog' = Append(fetchLog, Msg.id)
    /\ outcome' = [outcome EXCEPT ![idx] = "Downloaded"]
    /\ target' = [target EXCEPT ![idx] = TargetDir(Msg)]
    /\ UNCHANGED <<ledgerFile, tmpFile, pc, run, messages, skipped, completed, total,
                   wait, ret, ledgerFile0, files0, prev, scan>>
    /\ UNCHANGED unit

\* msg.download_media returns: the file is written, the id added
FetchOk ==
    /\ InLoop
    /\ ~InLedger(Msg, downloaded_ids)
    /\ ~Exists(OutPath(Msg), files)
    /\ dirs' = MkDir(Msg, dirs)
    /\ files' = WriteFile(files, OutPath(Msg), [complete |-> TRUE])
    /\ written' = written \cup {OutPath(Msg)}
    /\ downloaded_ids' = downloaded_ids \cup {Msg.id}
    /\ completed' = completed + 1
    /\ advances' = advances + 1
    /\ handled' = Append(handled, Msg.id)
    /\ idx' = idx + 1
    /\ fetchLog' = Append(fetchLog, Msg.id)
    /\ outcome' = [outcome EXCEPT ![idx] = "Downloaded"]
    /\ target' = [target EXCEPT ![idx] = TargetDir(Msg)]
    /\ UNCHANGED <<ledgerFile, tmpFile, pc, run, messages, skipped, total, wait, ret,
                   ledgerFile0, files0, prev, scan>>
    /\ UNCHANGED unit

\* what a download_media that raises leaves at path: nothing, or the part of
\* the file written before the error
AfterFailedFetch(fs, path, partial) ==
    IF partial THEN WriteFile(fs, path, [complete |-> FALSE]) ELSE fs

\* mutant of FetchFlood: the id is recorded although the fetch raised
FetchFloodRecorded ==
    /\ InLoop
    /\ ~InLedger(Msg, downloaded_ids)
    /\ ~Exists(OutPath(Msg), files)
    /\ dirs' = MkDir(Msg, dirs)
    /\ \E partial \in BOOLEAN :
          /\ files' = AfterFailedFetch(files, OutPath(Msg), partial)
          /\ written' = IF partial THEN written \cup {OutPath(Msg)} ELSE written
    /\ \E seconds \in 1..MaxWait : wait' = seconds
    /\ handled' = Append(handled, Msg.id)
    /\ pc' = "sleep"
    /\ downloaded_ids' = downloaded_ids \cup {Msg.id}
    /\ fetchLog' = Append(fetchLog, Msg.id)
    /\ outcome' = [outcome EXCEPT ![idx] = "RateLimited"]
    /\ target' = [target EXCEPT ![idx] = TargetDir(Msg)]
    /\ UNCHANGED <<ledgerFile, tmpFile, run, messages, idx, skipped,
                   completed, advances, total, ret, ledgerFile0, files0, prev, scan>>
    /\ UNCHANGED unit

\* msg.download_media raises FloodWaitError: the handler prints and sleeps
FetchFlood ==
    /\ InLoop
    /\ ~InLedger(Msg, downloaded_ids)
    /\ ~Exists(OutPath(Msg), files)
    /\ dirs' = MkDir(Msg, dirs)
    /\ \E partial \in BOOLEAN :
          /\ files' = AfterFailedFetch(files, OutPath(Msg), partial)
          /\ written' = IF partial THEN written \cup {OutPath(Msg)} ELSE written
    /\ \E seconds \in 1..MaxWait : wait' = seconds
    /\ handled' = Append(handled, Msg.id)
    /\ pc' = "sleep"
    /\ fetchLog' = Append(fetchLog, Msg.id)
    /\ outcome' = [outcome EXCEPT ![idx] = "RateLimited"]
    /\ target' = [target EXCEPT ![idx] = TargetDir(Msg)]
    /\ UNCHANGED <<ledgerFile, tmpFile, run, messages, idx, downloaded_ids, skipped,
                   completed, advances, total, ret, ledgerFile0, files0, prev, scan>>
    /\ UNCHANGED unit

\* mutant of Sleep: after the wait the same message is fetched again
SleepThenRetry ==
    /\ pc = "sleep"
    /\ wait' = 0
    /\ pc' = "loop"
    /\ UNCHANGED <<disk, run, messages, idx, downloaded_ids, skipped, completed, advances,
                   total, ret, ledgerFile0, files0, fetchLog, written, outcome, target, prev, scan, handled>>
    /\ UNCHANGED unit

\* asyncio.sleep(e.seconds) ends; the handler is done and the for loop takes
\* the next message
Sleep ==
    /\ pc = "sleep"
    /\ wait' = 0
    /\ idx' = idx + 1
    /\ pc' = "loop"
    /\ UNCHANGED <<disk, run, messages, downloaded_ids, skipped, completed, advances,
                   total, ret, ledgerFile0, files0, fetchLog, written, outcome, target, prev, scan, handled>>
    /\ UNCHANGED unit

\* mutant of FetchError: the error ends the loop (the handler breaks)
FetchErrorAborts ==
    /\ InLoop
    /\ ~InLedger(Msg, downloaded_ids)
    /\ ~Exists(OutPath(Msg), files)
    /\ dirs' = MkDir(Msg, dirs)
    /\ \E partial \in BOOLEAN :
          /\ files' = AfterFailedFetch(files, OutPath(Msg), partial)
          /\ written' = IF partial THEN written \cup {OutPath(Msg)} ELSE written
    /\ advances' = advances + 1
    /\ handled' = Append(handled, Msg.id)
    /\ idx' = Len(messages) + 1
    /\ fetchLog' = Append(fetchLog, Msg.id)
    /\ outcome' = [outcome EXCEPT ![idx] = "Failed"]
    /\ target' = [target EXCEPT ![idx] = TargetDir(Msg)]
    /\ UNCHANGED <<ledgerFile, tmpFile, pc, run, messages, downloaded_ids, skipped,
                   completed, total, wait, ret, ledgerFile0, files0, prev, scan>>
    /\ UNCHANGED unit

\* mutant of FetchError: the failed message is counted as completed
FetchErrorCounted ==
    /\ InLoop
    /\ ~InLedger(Msg, downloaded_ids)
    /\ ~Exists(OutPath(Msg), files)
    /\ dirs' = MkDir(Msg, dirs)
    /\ \E partial \in BOOLEAN :
          /\ files' = AfterFailedFetch(files, OutPath(Msg), partial)
          /\ written' = IF partial THEN written \cup {OutPath(Msg)} ELSE written
    /\ completed' = completed + 1
    /\ advances' = advances + 1
    /\ handled' = Append(handled, Msg.id)
    /\ idx' = idx + 1
    /\ fetchLog' = Append(fetchLog, Msg.id)
    /\ outcome' = [outcome EXCEPT ![idx] = "Failed"]
    /\ target' = [target EXCEPT ![idx] = TargetDir(Msg)]
    /\ UNCHANGED <<ledgerFile, tmpFile, pc, run, messages, downloaded_ids, skipped,
                   total, wait, ret, ledgerFile0, files0, prev, scan>>
    /\ UNCHANGED unit

\* msg.download_media raises another Exception: printed, progress advanced
FetchError ==
    /\ InLoop
    /\ ~InLedger(Msg, downloaded_ids)
    /\ ~Exists(OutPath(Msg), files)
    /\ dirs' = MkDir(Msg, dirs)
    /\ \E partial \in BOOLEAN :
          /\ files' = AfterFailedFetch(files, OutPath(Msg), partial)
          /\ written' = IF partial THEN written \cup {OutPath(Msg)} ELSE written
    /\ advances' = advances + 1
    /\ handled' = Append(handled, Msg.id)
    /\ idx' = idx + 1
    /\ fetchLog' = Append(fetchLog, Msg.id)
    /\ outcome' = [outcome EXCEPT ![idx] = "Failed"]
    /\ target' = [target EXCEPT ![idx] = TargetDir(Msg)]
    /\ UNCHANGED <<ledgerFile, tmpFile, pc, run, messages, downloaded_ids, skipped,
                   completed, total, wait, ret, ledgerFile0, files0, prev, scan>>
    /\ UNCHANGED unit

\* ------------------------------------------------------ save_downloaded_set
\* mutant of SaveOpen: the ledger file itself is opened for writing
SaveOpenInPlace ==
    /\ pc = "loop"
    /\ idx > Len(messages)
    /\ ledgerFile' = Truncated
    /\ pc' = "save_dump"
    /\ UNCHANGED <<files, dirs, tmpFile, run, locals, passHistory>>
    /\ UNCHANGED unit

\* the loop is over; open(temp, "w") creates or truncates the temporary file
SaveOpen ==
    /\ pc = "loop"
    /\ idx > Len(messages)
    /\ tmpFile' = Truncated
    /\ pc' = "save_dump"
    /\ UNCHANGED <<files, dirs, ledgerFile, run, locals, passHistory>>
    /\ UNCHANGED unit

\* json.dump(payload, f) and the file is closed
SaveDump ==
    /\ pc = "save_dump"
    /\ tmpFile' = Payload(downloaded_ids, ChatMeta)
    /\ pc' = "save_replace"
    /\ UNCHANGED <<files, dirs, ledgerFile, run, locals, passHistory>>
    /\ UNCHANGED unit

\* os.replace(temp, log_path), then download_messages returns
SaveReplace ==
    /\ pc = "save_replace"
    /\ ledgerFile' = tmpFile
    /\ tmpFile' = NoFile
    /\ ret' = <<completed, skipped>>
    /\ pc' = "returned"
    /\ UNCHANGED <<files, dirs, run, messages, idx, downloaded_ids, skipped, completed,
                   advances, total, wait, passHistory>>
    /\ UNCHANGED unit

\* ------------------------------------------------------------- environment
\* the process is terminated during a pass; what is on disk stays (a temporary
\* file of the save, truncated or complete, stays as a stale file)
Crash ==
    /\ pc \in {"scanned", "loop", "sleep", "save_dump", "save_replace"}
    /\ tmpFile' = IF tmpFile = NoFile THEN NoFile ELSE Stale
    /\ pc' = "idle"
    /\ ResetPass
    /\ UNCHANGED <<files, dirs, ledgerFile, run>>
    /\ UNCHANGED unit

\* between two runs the ledger file is deleted, the media files stay
DeleteLedger ==
    /\ pc \in Ended
    /\ ledgerFile # NoFile
    /\ ledgerFile' = NoFile
    /\ pc' = "idle"
    /\ ResetPass
    /\ UNCHANGED <<files, dirs, tmpFile, run>>
    /\ UNCHANGED unit

\* between two runs one of the media files is moved away, the ledger stays
DeleteMedia ==
    /\ pc \in Ended
    /\ \E gone \in DOMAIN files :
          files' = [q \in DOMAIN files \ {gone} |-> files[q]]
    /\ pc' = "idle"
    /\ ResetPass
    /\ UNCHANGED <<dirs, ledgerFile, tmpFile, run>>
    /\ UNCHANGED unit



Next ==
    \/ MainNothing
    \/ Scan
    \/ StartPass
    \/ SkipInLedger
    \/ SkipExisting
    \/ FetchOk
    \/ FetchFlood
    \/ Sleep
    \/ FetchError
    \/ SaveOpen
    \/ SaveDump
    \/ SaveReplace
    \/ Crash
    \/ DeleteLedger
    \/ DeleteMedia

Spec == Init /\ [][Next]_vars

\* ------------------------------------------- a process that is not killed
\* the steps download_messages takes by itself once it has been called
PassStep ==
    \/ StartPass
    \/ SkipInLedger
    \/ SkipExisting
    \/ FetchOk
    \/ FetchFlood
    \/ Sleep
    \/ FetchError
    \/ SaveOpen
    \/ SaveDump
    \/ SaveReplace

NextLive ==
    \/ MainNothing
    \/ Scan
    \/ PassStep
    \/ DeleteLedger
    \/ DeleteMedia

\* the event loop keeps running the coroutine: a pass that can take a step
\* takes one
LiveSpec == Init /\ [][NextLive]_vars /\ WF_vars(PassStep)

\* ------------------------------------------- the functions on their own
\* main() has not run: empty chat folder, no pass
FreshMain ==
    /\ files = NoFiles
    /\ dirs = {}
    /\ ledgerFile = NoFile
    /\ tmpFile = NoFile
    /\ pc = "idle"
    /\ run = 0
    /\ NoPass

\* message ids: one is a decimal prefix of another
SampleIds == {1, 2, 12}

\* msg.file as Telethon gives it: absent, or name and extension each absent,
\* empty or set; some names begin like another message's id
SampleFiles ==
    {None,
     Some([name |-> None, ext |-> None]),
     Some([name |-> None, ext |-> Some(".jpg")]),
     Some([name |-> Some(""), ext |-> Some("")]),
     Some([name |-> Some("a.jpg"), ext |-> Some(".jpg")]),
     Some([name |-> Some("2_a.jpg"), ext |-> Some(".jpg")])}

\* a media message with the given id, album and file
FileMsg(i, g, f) ==
    [id |-> i, grouped_id |-> g, media |-> Some("MessageMediaDocument"), photo |-> FALSE,
     video |-> FALSE, doc_attrs |-> Some({"DocumentAttributeFilename"}), file |-> f]

SampleMsgs == {FileMsg(i, g, f) : i \in SampleIds, g \in {None, Some(7)}, f \in SampleFiles}

\* two messages are named and fetched one after the other into an empty
\* chat folder (lines 190-202 for each)
ApplyNaming ==
    /\ fn = "build_unique_filename"
    /\ result = None
    /\ LET first == OutPath(arg[1])
           second == OutPath(arg[2])
           after_first == WriteFile(NoFiles, first, [complete |-> TRUE])
       IN  result' = Some([names |-> <<build_unique_filename(arg[1], ".bin"),
                                       build_unique_filename(arg[2], ".bin")>>,
                           paths |-> <<first, second>>,
                           second_found |-> Exists(second, after_first),
                           files |-> IF Exists(second, after_first) THEN after_first
                                     ELSE WriteFile(after_first, second, [complete |-> TRUE])])
    /\ UNCHANGED <<disk, pc, run, locals, passHistory, fn, arg>>

\* longest history scanned on its own
MaxScan == 3

\* kinds of message a history holds
SampleKinds == {"text", "photo", "expired_photo", "video", "video_by_attribute", "document"}

\* the message of a kind as Telethon presents it
MsgOfKind(kind, i) ==
    CASE kind = "text" -> TextMsg(i)
      [] kind = "photo" -> PhotoMsg(i, None)
      [] kind = "expired_photo" ->
            [id |-> i, grouped_id |-> None, media |-> Some("MessageMediaPhoto"),
             photo |-> FALSE, video |-> FALSE, doc_attrs |-> None, file |-> None]
      [] kind = "video" -> VideoMsg(i, None)
      [] kind = "video_by_attribute" ->
            [id |-> i, grouped_id |-> None, media |-> Some("MessageMediaDocument"),
             photo |-> FALSE, video |-> FALSE,
             doc_attrs |-> Some({"DocumentAttributeVideo"}),
             file |-> Some([name |-> None, ext |-> Some(".mp4")])]
      [] OTHER -> FileMsg(i, None, Some([name |-> Some("a.pdf"), ext |-> Some(".pdf")]))

\* a history with the given kinds, most recent (highest id) first
History(kinds) == [k \in 1..Len(kinds) |-> MsgOfKind(kinds[k], Len(kinds) + 1 - k)]

SampleKindSeqs == UNION {[1..n -> SampleKinds] : n \in 0..MaxScan}

SampleScans ==
    [kinds : SampleKindSeqs, media_type : MediaTypes, limit : 1..MaxScan, order : Orders]

\* collect_media_messages is called on a history
ApplyCollect ==
    /\ fn = "collect_media_messages"
    /\ result = None
    /\ result' = Some(collect_over(History(arg.kinds), arg.media_type, arg.limit, arg.order))
    /\ UNCHANGED <<disk, pc, run, locals, passHistory, fn, arg>>

\* elements a downloaded_ids array of a hand-edited ledger may hold
SampleItems ==
    {JInt(1), JInt(3), JStr("1"), JStr(" 4 "), JStr("x"), JFloat(5), JBool(TRUE), JNull}

\* values found under "downloaded_ids": arrays of up to two elements, a
\* string, null, a number
SampleIdsValues ==
    {JArray(<<>>)}
    \cup {JArray(<<x>>) : x \in SampleItems}
    \cup {JArray(<<x, y>>) : x, y \in SampleItems}
    \cup {JChars(<<"1", "2">>), JChars(<<"x">>), JNull, JInt(5)}

\* what load_downloaded_set may find at the ledger path
SampleLedgers ==
    {NoFile, Garbage, Truncated, NotObject,
     [kind |-> "json", chat_id |-> -100, chat_name |-> "chat"]}
    \cup {[kind |-> "json", chat_id |-> -100, chat_name |-> "chat", downloaded_ids |-> v] :
             v \in SampleIdsValues}

\* load_downloaded_set is called on the ledger file
ApplyLoad ==
    /\ fn = "load_downloaded_set"
    /\ result = None
    /\ result' = Some(load_downloaded_set(arg))
    /\ UNCHANGED <<disk, pc, run, locals, passHistory, fn, arg>>

\* id sets handed to save_downloaded_set
SampleIdSets == SUBSET {1, 2, 3, 12}

\* save_downloaded_set writes the ledger file (temporary file, dump,
\* os.replace) and load_downloaded_set reads it back
ApplySave ==
    /\ fn = "save_downloaded_set"
    /\ result = None
    /\ ledgerFile' = Payload(arg, ChatMeta)
    /\ result' = Some(load_downloaded_set(Payload(arg, ChatMeta)))
    /\ UNCHANGED <<files, dirs, tmpFile, pc, run, locals, passHistory, fn, arg>>

InitFn ==
    /\ FreshMain
    /\ result = None
    /\ \/ fn = "build_unique_filename" /\ arg \in SampleMsgs \X SampleMsgs
       \/ fn = "load_downloaded_set" /\ arg \in SampleLedgers
       \/ fn = "collect_media_messages" /\ arg \in SampleScans
       \/ fn = "save_downloaded_set" /\ arg \in SampleIdSets

NextFn ==
    \/ ApplyNaming
    \/ ApplyLoad
    \/ ApplyCollect
    \/ ApplySave

SpecFn == InitFn /\ [][NextFn]_vars

\* ------------------------------------------------------------- properties
Positions == 1..Len(messages)
InPass == pc \in {"loop", "sleep", "save_dump", "save_replace", "returned"}
Returned == pc = "returned"
Loaded == load_downloaded_set(ledgerFile0)
\* a file was at the resolved path of the message at position i at pass start
OnDiskAtStart(i) == OutPath(messages[i]) \in DOMAIN files0
Resolved == {"SkippedLedger", "SkippedFile", "Downloaded", "Failed"}
Raised == {"Failed", "RateLimited"}
Count(status) == Cardinality({i \in Positions : outcome[i] \in status})
Fetches(id) == Cardinality({k \in 1..Len(fetchLog) : fetchLog[k] = id})

\* C1 (rate-limit resumption): the loop never moves past a message that was
\* rate limited and is still unresolved; every message the loop has left
\* behind ended Skipped, Downloaded or Failed, so a rate-limited message is
\* fetched again before a later one is considered and is never dropped.
C1_RateLimitResumption ==
    InPass => \A i \in Positions : i < idx => outcome[i] \in Resolved

\* C2 (dedup correctness): no id of the ledger loaded at pass start is ever
\* passed to msg.download_media during the pass.
C2_DedupCorrectness ==
    \A k \in 1..Len(fetchLog) : fetchLog[k] \notin Loaded

C2_Witness ==
    /\ Returned
    /\ fetchLog # <<>>
    /\ \E i \in Positions :
          /\ messages[i].id \in Loaded
          /\ ~OnDiskAtStart(i)

\* C3 (idempotence): two passes in a row over the same list of N messages,
\* the first on an empty chat folder and no fetch raising, return (N, 0) and
\* then (0, N), and the second pass fetches nothing.
C3_Idempotence ==
    (/\ Returned
     /\ prev # None
     /\ prev[1].messages = messages
     /\ Count(Raised) = 0)
    => /\ prev[1].ret = <<Len(messages), 0>>
       /\ ret = <<0, Len(messages)>>
       /\ fetchLog = <<>>

C3_Witness ==
    /\ Returned
    /\ prev # None
    /\ prev[1].messages = messages
    /\ Len(messages) >= 2
    /\ ret = <<0, Len(messages)>>

\* C4 (self-healing): in a pass started without a ledger file, a message whose
\* file is already at its resolved path is never fetched, its file is left as
\* it was, it ends Skipped with its id in the ledger, and the ledger persisted
\* at the end of the pass holds its id.
C4_SelfHealing ==
    (InPass /\ ledgerFile0 = NoFile) =>
        \A i \in Positions :
            OnDiskAtStart(i) =>
                /\ Fetches(messages[i].id) = 0
                /\ OutPath(messages[i]) \notin written
                /\ OutPath(messages[i]) \in DOMAIN files
                /\ files[OutPath(messages[i])] = files0[OutPath(messages[i])]
                /\ i < idx => /\ outcome[i] = "SkippedFile"
                              /\ messages[i].id \in downloaded_ids
                /\ Returned => messages[i].id \in load_downloaded_set(ledgerFile)

C4_Witness ==
    /\ Returned
    /\ ledgerFile0 = NoFile
    /\ \E i \in Positions : OnDiskAtStart(i) /\ files0[OutPath(messages[i])].complete
    /\ \E i \in Positions : outcome[i] = "Downloaded"

\* what happens to the message at position i, decided by the ledger and the
\* files at pass start alone
Disposition(i) ==
    IF messages[i].id \in Loaded THEN "SkippedLedger"
    ELSE IF OnDiskAtStart(i) THEN "SkippedFile"
    ELSE "Fetch"

\* C5 (per-message error isolation): a fetch that raises another error marks
\* the message Failed, it is fetched once only, the pass goes on to the end of
\* the list, and every message is handled as the ledger and the files at pass
\* start decide (skipped, or fetched once), whatever happened to the others;
\* the ledger gains the ids of the downloaded and reconciled messages only.
C5_ErrorIsolation ==
    InPass =>
        /\ \A i \in Positions : Fetches(messages[i].id) <= 1
        /\ \A i \in Positions : i < idx =>
              /\ Disposition(i) # "Fetch" =>
                    outcome[i] = Disposition(i) /\ Fetches(messages[i].id) = 0
              /\ Disposition(i) = "Fetch" =>
                    /\ outcome[i] \in {"Downloaded", "Failed", "RateLimited"}
                    /\ Fetches(messages[i].id) = 1
        /\ pc \in {"save_dump", "save_replace", "returned"} =>
              \A i \in Positions : outcome[i] # "Pending"
        /\ downloaded_ids =
              Loaded \cup {messages[i].id : i \in {j \in Positions :
                                 outcome[j] \in {"Downloaded", "SkippedFile"}}}

C5_Witness ==
    /\ Returned
    /\ \E i, j \in Positions :
          /\ i < j
          /\ outcome[i] = "Failed"
          /\ outcome[j] = "Downloaded"
    /\ \E i, j \in Positions :
          /\ i < j
          /\ outcome[i] = "Failed"
          /\ outcome[j] \in {"SkippedLedger", "SkippedFile"}

\* the ids of the messages the pass downloaded or reconciled with their file
Gained == {messages[i].id : i \in {j \in Positions : outcome[j] \in {"Downloaded", "SkippedFile"}}}

\* C6 (end-of-pass ledger content): when the pass returns, the ids in the
\* ledger file are those loaded at pass start plus those of the messages that
\* ended Downloaded or were skipped for their existing file; and no step of
\* the program ever takes an id out of the ledger file.
C6_LedgerContent ==
    /\ [](Returned => load_downloaded_set(ledgerFile) = Loaded \cup Gained)
    /\ [][DeleteLedger \/
          load_downloaded_set(ledgerFile) \subseteq load_downloaded_set(ledgerFile')]_vars

C6_Witness ==
    /\ Returned
    /\ Loaded # {}
    /\ Count({"Downloaded"}) > 0
    /\ Count({"SkippedFile"}) > 0
    /\ load_downloaded_set(ledgerFile) # Loaded

\* C7 (ledger atomicity): from the start of the pass to the rename the ledger
\* file keeps the content it had at pass start, so a termination anywhere in
\* the save leaves it intact; after the rename it holds the complete new
\* payload; it is never a truncated file.
C7_LedgerAtomicity ==
    /\ ledgerFile # Truncated
    /\ pc \in {"loop", "sleep", "save_dump", "save_replace"} => ledgerFile = ledgerFile0
    /\ Returned => ledgerFile = Payload(downloaded_ids, ChatMeta)

C7_Witness ==
    /\ pc = "save_dump"
    /\ tmpFile = Truncated
    /\ ledgerFile0.kind = "json"
    /\ ledgerFile = ledgerFile0
    /\ ledgerFile # Payload(downloaded_ids, ChatMeta)

\* C8 (progress accounting): when the pass ends the progress task has been
\* advanced once per message of the list.
C8_ProgressAccounting ==
    Returned => advances = Len(messages) /\ advances = total

\* C9 (returned counters): completed is the number of messages downloaded in
\* the pass, skipped the number found in the ledger or reconciled with their
\* file; failed and rate-limited messages are in neither, so the sum is at
\* most the length of the list, with equality exactly when no fetch raised.
C9_ReturnedCounters ==
    Returned =>
        /\ ret[1] = Count({"Downloaded"})
        /\ ret[1] = Cardinality({i \in Positions : /\ Fetches(messages[i].id) = 1
                                                   /\ outcome[i] \notin Raised})
        /\ ret[2] = Count({"SkippedLedger"}) + Count({"SkippedFile"})
        /\ ret[1] + ret[2] <= Len(messages)
        /\ (ret[1] + ret[2] = Len(messages)) <=> (Count(Raised) = 0)

C9_Witness ==
    /\ Returned
    /\ Count({"Downloaded"}) > 0
    /\ Count({"SkippedLedger", "SkippedFile"}) > 0
    /\ Count(Raised) > 0
    /\ ret[1] + ret[2] < Len(messages)

\* C10 (album grouping): a message with a group id is resolved to the folder
\* group_<id> under the chat root, never to the chat root; equal group ids
\* give equal folders, different ones different folders, and a message with
\* no group id is resolved to the chat root.
C10_AlbumGrouping ==
    \A i, j \in Positions :
        (target[i] # "" /\ target[j] # "") =>
            /\ messages[i].grouped_id = None => target[i] = ChatFolder
            /\ messages[i].grouped_id # None =>
                  /\ target[i] = GroupDir(messages[i].grouped_id[1])
                  /\ target[i] # ChatFolder
            /\ (messages[i].grouped_id # None /\ messages[j].grouped_id # None) =>
                  (target[i] = target[j] <=> messages[i].grouped_id = messages[j].grouped_id)

\* ---------------------------------------------------------------- C11
\* the place of a message in what iter_messages delivers (1 = most recent)
DeliveredAt(msg) == CHOOSE k \in 1..NumMsgs : iter_messages(NumMsgs)[k] = msg

\* the ids of the messages the loop has taken so far, in list order
TakenSoFar == [k \in 1..Len(handled) |-> messages[k].id]

\* C11: the list collect_media_messages returns holds the kept messages in
\* the order they were delivered when order is "newest" and in the reverse of
\* it when order is "oldest"; download_messages takes the messages in the
\* order of that list.
C11_OrderContract ==
    /\ pc = "scanned" =>
          LET delivered == iter_messages(scan[1].limit) IN
          /\ Range(messages) = {m \in Range(delivered) : Keep(m, scan[1].media_type)}
          /\ \A a, b \in 1..Len(messages) :
                a < b => IF scan[1].order = "oldest"
                         THEN DeliveredAt(messages[a]) > DeliveredAt(messages[b])
                         ELSE DeliveredAt(messages[a]) < DeliveredAt(messages[b])
    /\ InPass =>
          /\ handled = TakenSoFar
          /\ Len(handled) = (IF pc = "sleep" THEN idx ELSE idx - 1)

\* two messages of a list collected oldest first have been taken
C11_Witness ==
    /\ InPass
    /\ Len(handled) >= 2
    /\ DeliveredAt(messages[1]) > DeliveredAt(messages[2])
    /\ handled[1] = messages[1].id
    /\ handled[2] = messages[2].id

\* ---------------------------------------------------------------- C12
\* C12: two messages with different ids get different file names, whatever
\* their declared file names (identical, empty or absent), so their
\* destination paths differ; fetched one after the other, the second is not
\* skipped because of the first and does not overwrite it.
C12_FilenameUniqueness ==
    (fn = "build_unique_filename" /\ result # None /\ arg[1].id # arg[2].id) =>
        /\ result[1].names[1] # result[1].names[2]
        /\ result[1].paths[1] # result[1].paths[2]
        /\ ~result[1].second_found
        /\ DOMAIN result[1].files = {result[1].paths[1], result[1].paths[2]}
        /\ Cardinality(DOMAIN result[1].files) = 2

\* two messages of one album with different ids and the same declared name
C12_Witness ==
    /\ fn = "build_unique_filename"
    /\ result # None
    /\ arg[1].id = 1
    /\ arg[2].id = 12
    /\ arg[1].grouped_id = arg[2].grouped_id
    /\ arg[1].file = arg[2].file
    /\ arg[1].file = Some([name |-> Some("a.jpg"), ext |-> Some(".jpg")])

\* ---------------------------------------------------------------- C13
\* the ledger content has the documented shape: a JSON object whose
\* downloaded_ids, when present, is an array of integers
WellFormed(content) ==
    /\ content.kind = "json"
    /\ "downloaded_ids" \in DOMAIN content =>
          /\ content.downloaded_ids.t = "array"
          /\ \A k \in 1..Len(content.downloaded_ids.items) :
                content.downloaded_ids.items[k].t = "int"

\* Python's int() takes the element: an integer, a float, a boolean or a
\* string that spells a decimal
Convertible(x) ==
    \/ x.t \in {"int", "float", "bool"}
    \/ x.t = "str" /\ x.s \in {"1", "2", " 4 "}

\* the elements the comprehension iterates over, <<>> when there is no key
Elements(content) ==
    IF "downloaded_ids" \notin DOMAIN content THEN <<>>
    ELSE IF content.downloaded_ids.t = "array" THEN content.downloaded_ids.items
    ELSE content.downloaded_ids.chars

\* the content is a JSON object, downloaded_ids (if there) can be iterated
\* and int() takes every element
Readable(content) ==
    /\ content.kind = "json"
    /\ "downloaded_ids" \in DOMAIN content => content.downloaded_ids.t \in {"array", "str"}
    /\ \A k \in 1..Len(Elements(content)) : Convertible(Elements(content)[k])

\* C13: load_downloaded_set never raises; a missing ledger file, or one
\* whose content is malformed (unparsable, wrong shape, non-integer ids),
\* yields the empty set.
C13_LedgerLoadTolerance ==
    (fn = "load_downloaded_set" /\ result # None) =>
        /\ result[1] \subseteq Int
        /\ (arg = NoFile \/ ~WellFormed(arg)) => result[1] = {}

\* C13 as the code has it: never raises; the empty set for a missing file,
\* content that is not a JSON object, a downloaded_ids that cannot be
\* iterated, or any element int() rejects; otherwise the int() of every
\* element, so strings spelling numbers, floats and booleans are taken.
C13_LoadCoerces ==
    (fn = "load_downloaded_set" /\ result # None) =>
        /\ result[1] \subseteq Int
        /\ (arg = NoFile \/ ~Readable(arg)) => result[1] = {}
        /\ (arg # NoFile /\ Readable(arg)) =>
              /\ (result[1] = {}) <=> (Elements(arg) = <<>>)
              /\ \A k \in 1..Len(Elements(arg)) :
                    Elements(arg)[k].t = "int" => Elements(arg)[k].v \in result[1]
              /\ Cardinality(result[1]) <= Len(Elements(arg))

\* a ledger whose ids are a string and an integer is loaded as both numbers
C13_Witness ==
    /\ fn = "load_downloaded_set"
    /\ result # None
    /\ arg # NoFile
    /\ arg.kind = "json"
    /\ "downloaded_ids" \in DOMAIN arg
    /\ arg.downloaded_ids = JArray(<<JStr("1"), JInt(3)>>)
    /\ result[1] = {1, 3}

\* ---------------------------------------------------------------- C14
\* C14: every id the pass has added to the in-memory ledger has a file at
\* the message's destination path, one that was there when the pass started
\* or one a fetch of this pass wrote completely; this holds from the moment
\* the id is added to the end of the pass.
C14_LedgerImpliesFile ==
    InPass =>
        \A i \in Positions :
            messages[i].id \in downloaded_ids \ Loaded =>
                /\ OutPath(messages[i]) \in DOMAIN files
                /\ \/ OutPath(messages[i]) \in DOMAIN files0
                   \/ /\ outcome[i] = "Downloaded"
                      /\ files[OutPath(messages[i])].complete

\* a pass has added one id after a fetch and one for a file found on disk
C14_Witness ==
    /\ InPass
    /\ \E i, j \in Positions :
          /\ outcome[i] = "Downloaded"
          /\ outcome[j] = "SkippedFile"
          /\ {messages[i].id, messages[j].id} \subseteq downloaded_ids \ Loaded

\* ---------------------------------------------------------------- C15
\* C15: a fetch that raised (an error or a rate limit) leaves no file at the
\* message's destination path, and a pass marks a message Skipped for a file
\* found on disk (adding its id to the ledger) only when that file is a
\* complete one.
C15_NoTrustedPartialFile ==
    InPass =>
        \A i \in Positions :
            /\ outcome[i] \in Raised => OutPath(messages[i]) \notin DOMAIN files
            /\ outcome[i] = "SkippedFile" => files0[OutPath(messages[i])].complete

\* ---------------------------------------------------------------- C16
\* C16: while the messages of a pass are processed, and until the save's
\* os.replace, the ledger file on disk is what it was when the pass
\* started, whatever the pass has added in memory (so a process terminated
\* there leaves the pass-start content); the save is reached only after the
\* last message has been handled, and it is the one write of the pass.
C16_FlushOnlyAtPassEnd ==
    /\ pc \in {"loop", "sleep", "save_dump", "save_replace"} => ledgerFile = ledgerFile0
    /\ pc \in {"save_dump", "save_replace", "returned"} =>
          /\ idx = Len(messages) + 1
          /\ Len(handled) = Len(messages)
    /\ Returned => ledgerFile = Payload(downloaded_ids, ChatMeta)

\* in the middle of a pass over an existing ledger: ids added in memory, the
\* ledger file still as it was at the start
C16_Witness ==
    /\ pc = "loop"
    /\ idx > 1
    /\ idx <= Len(messages)
    /\ ledgerFile0 # NoFile
    /\ downloaded_ids # Loaded
    /\ ledgerFile = ledgerFile0
    /\ load_downloaded_set(ledgerFile) # downloaded_ids

\* ---------------------------------------------------------------- C17
\* the kinds of message a requested type asks for
Wanted(media_type) ==
    CASE media_type = "photos" -> {"photo", "expired_photo"}
      [] media_type = "videos" -> {"video", "video_by_attribute"}
      [] OTHER -> {"photo", "expired_photo", "video", "video_by_attribute"}

\* places in the history, most recent first, of the delivered messages that
\* have media of the requested type
Matching(a) ==
    {k \in 1..Len(a.kinds) : k <= a.limit /\ a.kinds[k] \in Wanted(a.media_type)}

\* C17: collect_media_messages returns exactly the messages, among the at
\* most `limit` delivered, that have media and are of the requested type
\* (photos: photo, videos: video, both: either), each once and no other; it
\* returns the empty sequence when nothing matches.
C17_ScanFilter ==
    (fn = "collect_media_messages" /\ result # None) =>
        /\ {result[1][k].id : k \in 1..Len(result[1])}
              = {Len(arg.kinds) + 1 - k : k \in Matching(arg)}
        /\ Len(result[1]) = Cardinality(Matching(arg))
        /\ \A k \in 1..Len(result[1]) :
              result[1][k] = History(arg.kinds)[Len(arg.kinds) + 1 - result[1][k].id]
        /\ Matching(arg) = {} => result[1] = <<>>

\* a scan of three delivered messages for videos: a video is kept, a plain
\* document and a text message are not
C17_Witness ==
    /\ fn = "collect_media_messages"
    /\ result # None
    /\ arg.kinds = <<"document", "video_by_attribute", "text">>
    /\ arg.limit = 3
    /\ arg.media_type = "videos"
    /\ Len(result[1]) = 1
    /\ result[1][1].id = 2

\* ---------------------------------------------------------------- C18
\* C18: after save_downloaded_set the downloaded_ids array of the ledger
\* file holds integers in strictly ascending order (so no duplicates), they
\* are the ids that were saved, and load_downloaded_set on the file gives
\* back exactly the saved set.
C18_LedgerFileFormat ==
    (fn = "save_downloaded_set" /\ result # None) =>
        LET items == ledgerFile.downloaded_ids.items IN
        /\ ledgerFile.kind = "json"
        /\ ledgerFile.downloaded_ids.t = "array"
        /\ \A k \in 1..Len(items) : items[k].t = "int"
        /\ \A a, b \in 1..Len(items) : a < b => items[a].v < items[b].v
        /\ {items[k].v : k \in 1..Len(items)} = arg
        /\ result[1] = arg

\* a set of three ids, one a decimal prefix of another, saved and loaded
C18_Witness ==
    /\ fn = "save_downloaded_set"
    /\ result # None
    /\ arg = {1, 3, 12}
    /\ Len(ledgerFile.downloaded_ids.items) = 3
    /\ result[1] = {1, 3, 12}

\* ---------------------------------------------------------------- C19
\* every element of the list has been taken at most once so far, in list
\* order
OncePerElement ==
    /\ Len(handled) <= Len(messages)
    /\ \A a, b \in 1..Len(handled) : a # b => handled[a] # handled[b]
    /\ \A k \in 1..Len(fetchLog) : Fetches(fetchLog[k]) = 1

\* C19: whatever the fetches do (succeed, raise a rate limit, raise another
\* error; a rate limit on every fetch included), download_messages takes
\* each element of the list at most once, and a pass that has started
\* reaches the end-of-pass save and returns.
C19_PassAlwaysEnds ==
    /\ [](InPass => OncePerElement)
    /\ (pc = "loop") ~> (Returned /\ Len(handled) = Len(messages) /\ ledgerFile # NoFile)

\* a pass in which every fetch was rate limited has returned
C19_Witness ==
    /\ Returned
    /\ Len(messages) >= 2
    /\ \A i \in Positions : outcome[i] = "RateLimited"
    /\ Len(fetchLog) = Len(messages)

\* ---------------------------------------------------------------- C20
\* C20: a message whose fetch raised in this pass (rate limit or any other
\* error) is in neither the in-memory ledger nor, once the pass has
\* returned, the ledger file; and a pass skips a message via the ledger only
\* when its id is in the ledger file the pass loaded, so a later pass over
\* the same history gets to the file-exists check or the fetch for it.
C20_FailedWorkStaysPending ==
    InPass =>
        \A i \in Positions :
            /\ outcome[i] \in Raised =>
                  /\ messages[i].id \notin Loaded
                  /\ messages[i].id \notin downloaded_ids
                  /\ Returned => messages[i].id \notin load_downloaded_set(ledgerFile)
            /\ outcome[i] = "SkippedLedger" =>
                  messages[i].id \in load_downloaded_set(ledgerFile0)

\* a pass has returned in which one fetch was rate limited, one failed and
\* one succeeded: the ledger file has the third id only
C20_Witness ==
    /\ Returned
    /\ \E i, j, k \in Positions :
          /\ outcome[i] = "RateLimited"
          /\ outcome[j] = "Failed"
          /\ outcome[k] = "Downloaded"
          /\ load_downloaded_set(ledgerFile) = {messages[k].id}

====
